---- MODULE Spec2Model ----
(***************************************************************************)
(* Model of the operator-control task of src/src/opcontrol.c:              *)
(* operatorControl's polling loop, one action per block of the loop body,  *)
(* and the two blocking macros dropOffCubes and attemptLight, one action   *)
(* per stretch of code between two delays.                                 *)
(*                                                                         *)
(* The joystick and the potentiometer are the environment.  Every action   *)
(* draws the value of the inputs its block concerns at the moment the      *)
(* block runs; an environment E names the values the inputs may take:      *)
(* E.buttons the buttons that may be pressed (all others read released),   *)
(* E.axes the analog axis readings, E.angles the potentiometer readings.   *)
(* Each specification below is the same program under one environment.     *)
(***************************************************************************)
EXTENDS Integers, Sequences, FiniteSets, TLC

(* ------------------------------ constants ------------------------------ *)

LEFT_MOTOR_FRONT == 5
LEFT_MOTOR_BACK == 4
RIGHT_MOTOR_FRONT == 2
RIGHT_MOTOR_BACK == 3
TRAY == 6
RIGHT_ROLLER == 7
LEFT_ROLLER == 8
RIGHT_ARM == 9
LEFT_ARM == 10
DEBUG_MOTOR == 1
BACKUP_SPEED == 70
IDEAL_ARM_INCREMENT == 30
ARM_LOWER_BOUND == 0
ARM_UPPER_BOUND == 4000

\* the levels of digitalWrite
LOW == "LOW"
HIGH == "HIGH"

\* joystickGetAnalog returns -127..127; the calibrated potentiometer 0..4095
JOY_MAX == 127
ANGLE_MAX == 4095

Ports == 1..10
DrivePorts == {LEFT_MOTOR_FRONT, LEFT_MOTOR_BACK, RIGHT_MOTOR_FRONT, RIGHT_MOTOR_BACK}
RollerPorts == {RIGHT_ROLLER, LEFT_ROLLER}
ArmPorts == {RIGHT_ARM, LEFT_ARM}

Buttons == {"5U", "5D", "6U", "6D", "7U", "7D", "7L", "8U", "8D", "8R"}

(* ------------------------------- bounds -------------------------------- *)

\* the trigger button 8 RIGHT is held for at most MaxRuns consecutive checks
MaxRuns == 2

\* the tray steps of an unbroken press of 5 UP that trayHist remembers
TrayWindow == 4

(* --------------------------- pure functions ---------------------------- *)

\* C's conversion of a quotient to int: truncation toward zero (d > 0)
TruncDiv(n, d) == IF n >= 0 THEN n \div d ELSE -((-n) \div d)

\* turningPower /= 1.4: the int is divided as a double and truncated back
ScaleTurn(t) == TruncDiv(t * 10, 14)

\* mutant: the deadband forgetting the negative readings
DeadbandPositiveOnly(x) == IF x < 15 /\ x > 0 THEN 0 ELSE x

\* if(x < 15 && x > -15) x = 0
Deadband(x) == IF x < 15 /\ x > -15 THEN 0 ELSE x

LeftPower(fp, tp) == fp + tp

RightPower(fp, tp) == fp - tp

\* mutant: the gain with the other sign
ProportionalWrongSign(ideal, cur) == TruncDiv(ideal - cur, 10)

\* mutant: the conversion rounding down instead of toward zero
ProportionalFloor(ideal, cur) == ((ideal - cur) * (-1)) \div 10

\* (idealLiftPos - currentPos) * -0.1 converted to int
Proportional(ideal, cur) == TruncDiv((ideal - cur) * (-1), 10)

\* mutant: the increase without its clamp
NudgeUpNoClamp(x) == x + IDEAL_ARM_INCREMENT

NudgeUp(x) ==
    IF (x + IDEAL_ARM_INCREMENT) > ARM_UPPER_BOUND
    THEN ARM_UPPER_BOUND
    ELSE x + IDEAL_ARM_INCREMENT

\* mutant: the decrease without its clamp
NudgeDownNoClamp(x) == x - IDEAL_ARM_INCREMENT

NudgeDown(x) ==
    IF (x - IDEAL_ARM_INCREMENT) < ARM_LOWER_BOUND
    THEN ARM_LOWER_BOUND
    ELSE x - IDEAL_ARM_INCREMENT

\* mutant: the counter wrapping one cycle late
TrayRaiseLateWrap(c) ==
    IF c = 0
    THEN <<127, 1>>
    ELSE <<40, IF c + 1 > 4 THEN 0 ELSE c + 1>>

\* the tray branch taken while 5 UP is held: <<power, next counter>>
TrayRaise(c) ==
    IF c = 0
    THEN <<127, 1>>
    ELSE <<40, IF c + 1 > 3 THEN 0 ELSE c + 1>>

\* the tray power while 5 UP is not held, given the state d of 5 DOWN
TrayElse(d) == IF d THEN -127 ELSE 0

\* the last n entries of s
KeepLast(s, n) == IF Len(s) <= n THEN s ELSE SubSeq(s, Len(s) - n + 1, Len(s))

MotorSet(m, port, power) == [m EXCEPT ![port] = power]

\* mutant: the right side not negated
SetMotorPowerSameSign(m, left, right) ==
    [m EXCEPT ![LEFT_MOTOR_FRONT] = left,
              ![LEFT_MOTOR_BACK] = left,
              ![RIGHT_MOTOR_FRONT] = right,
              ![RIGHT_MOTOR_BACK] = right]

SetMotorPower(m, left, right) ==
    [m EXCEPT ![LEFT_MOTOR_FRONT] = left,
              ![LEFT_MOTOR_BACK] = left,
              ![RIGHT_MOTOR_FRONT] = right * (-1),
              ![RIGHT_MOTOR_BACK] = right * (-1)]

\* the motorSet calls of setMotorPower, in order, as log entries at time t
SetMotorPowerLog(t, left, right) ==
    << <<t, LEFT_MOTOR_FRONT, left>>, <<t, LEFT_MOTOR_BACK, left>>,
       <<t, RIGHT_MOTOR_FRONT, right * (-1)>>, <<t, RIGHT_MOTOR_BACK, right * (-1)>> >>

(* -------------------------------- state -------------------------------- *)

VARIABLES
    pc,                       \* the block of code that runs next
    motor,                    \* last power passed to motorSet, per port
    idealLiftPos,             \* operatorControl's arm target
    trayIsCurrentlyFullPower, \* operatorControl's tray cycle counter
    debugButtonPressed,       \* operatorControl's 8 UP flag
    forwardPower,             \* operatorControl's locals
    turningPower,
    currentPos,
    proportional,
    rawForward,               \* the last joystickGetAnalog readings
    rawTurn,
    held,                     \* each button's state when its block last ran
    prevHeld,                 \* held as it was at the end of the previous cycle
    i,                        \* dropOffCubes' ramp variable
    elapsed,                  \* ms of delay() since dropOffCubes was last called
    rampDuration,             \* ms of those spent in the ramp loop
    cmds,                     \* motorSet calls of the current/last run: <<ms, port, power>>
    runs,                     \* runs started since 8 RIGHT last read released
    trayHist,                 \* <<counter before, power>> of the latest tray steps of
                              \* the current unbroken press of 5 UP
    order,                    \* the actuators commanded so far in this cycle, in order
    lightPin,                 \* level of LIGHT_PORT
    lightI,                   \* attemptLight's loop variable
    pinWrites                 \* digitalWrite levels of the current/last run of attemptLight

vars == <<pc, motor, idealLiftPos, trayIsCurrentlyFullPower, debugButtonPressed,
          forwardPower, turningPower, currentPos, proportional, rawForward, rawTurn,
          held, prevHeld, i, elapsed, rampDuration, cmds, runs, trayHist, order,
          lightPin, lightI, pinWrites>>

driveVars == <<forwardPower, turningPower, rawForward, rawTurn>>
armVars == <<currentPos, proportional>>
dropVars == <<i, elapsed, rampDuration, cmds>>
lightVars == <<lightPin, lightI, pinWrites>>
loopVars == <<idealLiftPos, trayIsCurrentlyFullPower, debugButtonPressed>>

AllStopped == [p \in Ports |-> 0]
NoButton == [b \in Buttons |-> FALSE]

\* the start of a cycle with the motors at m, the buttons last seen as h, the arm
\* target at x and last read on target, and nothing else having happened yet
CycleStart(m, h, x) ==
    /\ pc = "drive"
    /\ motor = m
    /\ idealLiftPos = x
    /\ trayIsCurrentlyFullPower = 0
    /\ debugButtonPressed = FALSE
    /\ forwardPower = 0
    /\ turningPower = 0
    /\ currentPos = x
    /\ proportional = 0
    /\ rawForward = 0
    /\ rawTurn = 0
    /\ held = h
    /\ prevHeld = h
    /\ i = 0
    /\ elapsed = 0
    /\ rampDuration = 0
    /\ cmds = <<>>
    /\ runs = 0
    /\ trayHist = <<>>
    /\ order = <<>>
    /\ lightPin = LOW
    /\ lightI = 0
    /\ pinWrites = <<>>

\* lines 140-148: operatorControl's locals at its first cycle, all motors stopped
Init == CycleStart(AllStopped, NoButton, 0)

\* the values joystickGetDigital may return for button b under environment E
Pressed(E, b) == IF b \in E.buttons THEN BOOLEAN ELSE {FALSE}

(* ------------------- operatorControl: the loop body -------------------- *)

\* lines 152-173: sample the axes, scale, deadband, mix, setMotorPower
Drive(E) ==
    /\ pc = "drive"
    /\ \E f \in E.axes, t \in E.axes :
        LET tp == Deadband(ScaleTurn(t))
            fp == Deadband(f)
        IN  /\ rawForward' = f
            /\ rawTurn' = t
            /\ forwardPower' = fp
            /\ turningPower' = tp
            /\ motor' = SetMotorPower(motor, LeftPower(fp, tp), RightPower(fp, tp))
    /\ order' = Append(order, "drive")
    /\ pc' = "rollers"
    /\ UNCHANGED <<loopVars, armVars, held, prevHeld, dropVars, runs, trayHist, lightVars>>

\* mutant: 6 DOWN tested first, so the outtake wins when both are held
RollersOuttakeFirst(E) ==
    /\ pc = "rollers"
    /\ \E u \in Pressed(E, "6U"), d \in Pressed(E, "6D") :
        /\ held' = [held EXCEPT !["6U"] = u, !["6D"] = d]
        /\ motor' = IF d THEN MotorSet(MotorSet(motor, RIGHT_ROLLER, 60), LEFT_ROLLER, -60)
                    ELSE IF u THEN MotorSet(MotorSet(motor, RIGHT_ROLLER, -127), LEFT_ROLLER, 127)
                    ELSE MotorSet(MotorSet(motor, RIGHT_ROLLER, 0), LEFT_ROLLER, 0)
    /\ order' = Append(order, "rollers")
    /\ pc' = "tray"
    /\ UNCHANGED <<loopVars, driveVars, armVars, prevHeld, dropVars, runs, trayHist, lightVars>>

\* lines 175-191
Rollers(E) ==
    /\ pc = "rollers"
    /\ \E u \in Pressed(E, "6U"), d \in Pressed(E, "6D") :
        /\ held' = [held EXCEPT !["6U"] = u, !["6D"] = d]
        /\ motor' = IF u THEN MotorSet(MotorSet(motor, RIGHT_ROLLER, -127), LEFT_ROLLER, 127)
                    ELSE IF d THEN MotorSet(MotorSet(motor, RIGHT_ROLLER, 60), LEFT_ROLLER, -60)
                    ELSE MotorSet(MotorSet(motor, RIGHT_ROLLER, 0), LEFT_ROLLER, 0)
    /\ order' = Append(order, "rollers")
    /\ pc' = "tray"
    /\ UNCHANGED <<loopVars, driveVars, armVars, prevHeld, dropVars, runs, trayHist, lightVars>>

\* lines 193-219
Tray(E) ==
    /\ pc = "tray"
    /\ \E u \in Pressed(E, "5U"), d \in Pressed(E, "5D") :
        /\ held' = [held EXCEPT !["5U"] = u, !["5D"] = d]
        /\ IF u
           THEN /\ motor' = MotorSet(motor, TRAY, TrayRaise(trayIsCurrentlyFullPower)[1])
                /\ trayIsCurrentlyFullPower' = TrayRaise(trayIsCurrentlyFullPower)[2]
                /\ trayHist' = KeepLast(Append(trayHist,
                                    <<trayIsCurrentlyFullPower,
                                      TrayRaise(trayIsCurrentlyFullPower)[1]>>), TrayWindow)
           ELSE /\ motor' = MotorSet(motor, TRAY, TrayElse(d))
                /\ trayHist' = <<>>
                /\ UNCHANGED trayIsCurrentlyFullPower
    /\ order' = Append(order, "tray")
    /\ pc' = "nudge"
    /\ UNCHANGED <<idealLiftPos, debugButtonPressed, driveVars, armVars, prevHeld,
                   dropVars, runs, lightVars>>

\* lines 243-264
Nudge(E) ==
    /\ pc = "nudge"
    /\ \E u \in Pressed(E, "7U"), d \in Pressed(E, "7D") :
        /\ held' = [held EXCEPT !["7U"] = u, !["7D"] = d]
        /\ idealLiftPos' = IF u THEN NudgeUp(idealLiftPos)
                           ELSE IF d THEN NudgeDown(idealLiftPos)
                           ELSE idealLiftPos
    /\ pc' = "arm"
    /\ UNCHANGED <<motor, trayIsCurrentlyFullPower, debugButtonPressed, driveVars,
                   armVars, prevHeld, dropVars, runs, trayHist, lightVars, order>>

\* lines 266-271
Arm(E) ==
    /\ pc = "arm"
    /\ \E a \in E.angles :
        /\ currentPos' = a
        /\ proportional' = Proportional(idealLiftPos, a)
        /\ motor' = MotorSet(MotorSet(motor, RIGHT_ARM, Proportional(idealLiftPos, a)),
                             LEFT_ARM, Proportional(idealLiftPos, a))
    /\ order' = Append(order, "arm")
    /\ pc' = "reset"
    /\ UNCHANGED <<loopVars, driveVars, held, prevHeld, dropVars, runs, trayHist, lightVars>>

\* mutant: the reset also corrects the arm power against the new target
ResetRecomputes(E) ==
    /\ pc = "reset"
    /\ \E l \in Pressed(E, "7L") :
        /\ held' = [held EXCEPT !["7L"] = l]
        /\ idealLiftPos' = IF l THEN ARM_LOWER_BOUND ELSE idealLiftPos
        /\ motor' = IF l THEN MotorSet(MotorSet(motor, RIGHT_ARM,
                                                Proportional(ARM_LOWER_BOUND, currentPos)),
                                       LEFT_ARM, Proportional(ARM_LOWER_BOUND, currentPos))
                  ELSE motor
    /\ pc' = "backup"
    /\ UNCHANGED <<trayIsCurrentlyFullPower, debugButtonPressed, driveVars,
                   armVars, prevHeld, dropVars, runs, trayHist, lightVars, order>>

\* lines 273-277
Reset(E) ==
    /\ pc = "reset"
    /\ \E l \in Pressed(E, "7L") :
        /\ held' = [held EXCEPT !["7L"] = l]
        /\ idealLiftPos' = IF l THEN ARM_LOWER_BOUND ELSE idealLiftPos
    /\ pc' = "backup"
    /\ UNCHANGED <<motor, trayIsCurrentlyFullPower, debugButtonPressed, driveVars,
                   armVars, prevHeld, dropVars, runs, trayHist, lightVars, order>>

\* lines 279-290
BackupMotors(m) ==
    [m EXCEPT ![RIGHT_ROLLER] = 80,
              ![LEFT_ROLLER] = -80,
              ![LEFT_MOTOR_FRONT] = BACKUP_SPEED * (-1),
              ![LEFT_MOTOR_BACK] = BACKUP_SPEED * (-1),
              ![RIGHT_MOTOR_FRONT] = BACKUP_SPEED,
              ![RIGHT_MOTOR_BACK] = BACKUP_SPEED]

\* mutant: the override commands the drive motors before the rollers
BackupDriveFirst(E) ==
    /\ pc = "backup"
    /\ \E b \in Pressed(E, "8D") :
        /\ held' = [held EXCEPT !["8D"] = b]
        /\ motor' = IF b THEN BackupMotors(motor) ELSE motor
        /\ order' = IF b THEN order \o <<"drive", "rollers">> ELSE order
    /\ pc' = "dropoff"
    /\ UNCHANGED <<loopVars, driveVars, armVars, prevHeld, dropVars, runs, trayHist, lightVars>>

\* lines 279-290: the backup override
Backup(E) ==
    /\ pc = "backup"
    /\ \E b \in Pressed(E, "8D") :
        /\ held' = [held EXCEPT !["8D"] = b]
        /\ motor' = IF b THEN BackupMotors(motor) ELSE motor
        /\ order' = IF b THEN order \o <<"rollers", "drive">> ELSE order
    /\ pc' = "dropoff"
    /\ UNCHANGED <<loopVars, driveVars, armVars, prevHeld, dropVars, runs, trayHist, lightVars>>

\* mutant: the macro triggered by a press only
DropoffTriggeredEdge(r) == r /\ ~prevHeld["8R"]

\* the condition of line 293, given the button's state r
DropoffTriggered(r) == r

\* lines 292-296: the call of dropOffCubes, or not
DropoffCheck(E) ==
    /\ pc = "dropoff"
    /\ \E r \in (IF runs >= MaxRuns THEN {FALSE} ELSE Pressed(E, "8R")) :
        /\ held' = [held EXCEPT !["8R"] = r]
        /\ IF DropoffTriggered(r)
           THEN /\ pc' = "drop_ramp"
                /\ i' = 127
                /\ elapsed' = 0
                /\ rampDuration' = 0
                /\ cmds' = <<>>
                /\ runs' = runs + 1
                /\ order' = Append(order, "dropoff")
           ELSE /\ pc' = "debugPress"
                /\ runs' = IF r THEN runs ELSE 0
                /\ UNCHANGED <<dropVars, order>>
    /\ UNCHANGED <<motor, loopVars, driveVars, armVars, prevHeld, trayHist, lightVars>>

\* lines 298-302
DebugPress(E) ==
    /\ pc = "debugPress"
    /\ IF ~debugButtonPressed
       THEN \E p \in Pressed(E, "8U") :
              /\ held' = [held EXCEPT !["8U"] = p]
              /\ motor' = IF p THEN MotorSet(motor, DEBUG_MOTOR, 127) ELSE motor
              /\ debugButtonPressed' = p
              /\ order' = IF p THEN Append(order, "debug") ELSE order
       ELSE UNCHANGED <<held, motor, debugButtonPressed, order>>
    /\ pc' = "debugRelease"
    /\ UNCHANGED <<idealLiftPos, trayIsCurrentlyFullPower, driveVars, armVars, prevHeld,
                   dropVars, runs, trayHist, lightVars>>

\* mutant: the flag is not cleared on the release
DebugReleaseKeepFlag(E) ==
    /\ pc = "debugRelease"
    /\ IF debugButtonPressed
       THEN \E p \in Pressed(E, "8U") :
              /\ held' = [held EXCEPT !["8U"] = p]
              /\ motor' = IF ~p THEN MotorSet(motor, DEBUG_MOTOR, 0) ELSE motor
              /\ debugButtonPressed' = TRUE
              /\ order' = IF ~p THEN order \o <<"debug", "light">> ELSE order
              /\ pc' = IF ~p THEN "light_reset" ELSE "delay"
       ELSE /\ pc' = "delay"
            /\ UNCHANGED <<held, motor, debugButtonPressed, order>>
    /\ UNCHANGED <<idealLiftPos, trayIsCurrentlyFullPower, driveVars, armVars, prevHeld,
                   dropVars, runs, trayHist, lightVars>>

\* lines 304-310: the call of attemptLight, or not
DebugRelease(E) ==
    /\ pc = "debugRelease"
    /\ IF debugButtonPressed
       THEN \E p \in Pressed(E, "8U") :
              /\ held' = [held EXCEPT !["8U"] = p]
              /\ motor' = IF ~p THEN MotorSet(motor, DEBUG_MOTOR, 0) ELSE motor
              /\ debugButtonPressed' = p
              /\ order' = IF ~p THEN order \o <<"debug", "light">> ELSE order
              /\ pc' = IF ~p THEN "light_reset" ELSE "delay"
       ELSE /\ pc' = "delay"
            /\ UNCHANGED <<held, motor, debugButtonPressed, order>>
    /\ UNCHANGED <<idealLiftPos, trayIsCurrentlyFullPower, driveVars, armVars, prevHeld,
                   dropVars, runs, trayHist, lightVars>>

\* mutant: the loop ends after the delay and operatorControl returns
EndDelayReturn ==
    /\ pc = "delay"
    /\ prevHeld' = held
    /\ order' = <<>>
    /\ pc' = "returned"
    /\ UNCHANGED <<motor, loopVars, driveVars, armVars, held, dropVars, runs, trayHist, lightVars>>

\* line 312: delay(20), then the next iteration
EndDelay ==
    /\ pc = "delay"
    /\ pc' = "drive"
    /\ prevHeld' = held
    /\ order' = <<>>
    /\ UNCHANGED <<motor, loopVars, driveVars, armVars, held, dropVars, runs, trayHist, lightVars>>

(* --------------------------- dropOffCubes ------------------------------ *)

\* mutant: the ramp runs down to 0 (i >= 0)
RampContinuesToZero(x) == x >= 0

\* whether the ramp loop of line 86 runs another iteration
RampContinues(x) == x >= 30

\* lines 86-90: one iteration of the ramp, or its exit
DropRamp ==
    /\ pc = "drop_ramp"
    /\ IF RampContinues(i)
       THEN /\ motor' = MotorSet(motor, TRAY, i)
            /\ cmds' = Append(cmds, <<elapsed, TRAY, i>>)
            /\ elapsed' = elapsed + 20
            /\ rampDuration' = rampDuration + 20
            /\ i' = i - 2
            /\ pc' = "drop_ramp"
       ELSE /\ pc' = "drop_trayStop"
            /\ UNCHANGED <<motor, cmds, elapsed, rampDuration, i>>
    /\ UNCHANGED <<loopVars, driveVars, armVars, held, prevHeld, runs, trayHist, lightVars, order>>

\* mutant: the tray stop also stops the arm motors
DropTrayStopArm ==
    /\ pc = "drop_trayStop"
    /\ motor' = MotorSet(MotorSet(MotorSet(motor, TRAY, 0), RIGHT_ARM, 0), LEFT_ARM, 0)
    /\ cmds' = Append(cmds, <<elapsed, TRAY, 0>>)
    /\ elapsed' = elapsed + 2000
    /\ pc' = "drop_fwd"
    /\ UNCHANGED <<loopVars, driveVars, armVars, held, prevHeld, runs, trayHist, lightVars,
                   i, rampDuration, order>>

\* lines 92-94
DropTrayStop ==
    /\ pc = "drop_trayStop"
    /\ motor' = MotorSet(motor, TRAY, 0)
    /\ cmds' = Append(cmds, <<elapsed, TRAY, 0>>)
    /\ elapsed' = elapsed + 2000
    /\ pc' = "drop_fwd"
    /\ UNCHANGED <<loopVars, driveVars, armVars, held, prevHeld, runs, trayHist, lightVars,
                   i, rampDuration, order>>

\* lines 97-98
DropBumpForward ==
    /\ pc = "drop_fwd"
    /\ motor' = SetMotorPower(motor, 60, 60)
    /\ cmds' = cmds \o SetMotorPowerLog(elapsed, 60, 60)
    /\ elapsed' = elapsed + 200
    /\ pc' = "drop_back"
    /\ UNCHANGED <<loopVars, driveVars, armVars, held, prevHeld, runs, trayHist, lightVars,
                   i, rampDuration, order>>

\* mutant: the reverse pulse half as long
DropBumpBackShort ==
    /\ pc = "drop_back"
    /\ motor' = SetMotorPower(motor, -60, -60)
    /\ cmds' = cmds \o SetMotorPowerLog(elapsed, -60, -60)
    /\ elapsed' = elapsed + 100
    /\ pc' = "drop_stop"
    /\ UNCHANGED <<loopVars, driveVars, armVars, held, prevHeld, runs, trayHist, lightVars,
                   i, rampDuration, order>>

\* lines 99-100
DropBumpBack ==
    /\ pc = "drop_back"
    /\ motor' = SetMotorPower(motor, -60, -60)
    /\ cmds' = cmds \o SetMotorPowerLog(elapsed, -60, -60)
    /\ elapsed' = elapsed + 200
    /\ pc' = "drop_stop"
    /\ UNCHANGED <<loopVars, driveVars, armVars, held, prevHeld, runs, trayHist, lightVars,
                   i, rampDuration, order>>

\* lines 101-103
DropBumpStop ==
    /\ pc = "drop_stop"
    /\ motor' = SetMotorPower(motor, 0, 0)
    /\ cmds' = cmds \o SetMotorPowerLog(elapsed, 0, 0)
    /\ elapsed' = elapsed + 2000
    /\ pc' = "drop_out"
    /\ UNCHANGED <<loopVars, driveVars, armVars, held, prevHeld, runs, trayHist, lightVars,
                   i, rampDuration, order>>

\* lines 106-109
DropRollOut ==
    /\ pc = "drop_out"
    /\ motor' = SetMotorPower(MotorSet(MotorSet(motor, RIGHT_ROLLER, 80), LEFT_ROLLER, -80),
                              BACKUP_SPEED * (-1), BACKUP_SPEED * (-1))
    /\ cmds' = cmds \o << <<elapsed, RIGHT_ROLLER, 80>>, <<elapsed, LEFT_ROLLER, -80>> >>
                    \o SetMotorPowerLog(elapsed, BACKUP_SPEED * (-1), BACKUP_SPEED * (-1))
    /\ elapsed' = elapsed + 700
    /\ pc' = "drop_end"
    /\ UNCHANGED <<loopVars, driveVars, armVars, held, prevHeld, runs, trayHist, lightVars,
                   i, rampDuration, order>>

\* mutant: the run ending without stopping the drivetrain
DropFinishNoStop ==
    /\ pc = "drop_end"
    /\ motor' = MotorSet(MotorSet(motor, RIGHT_ROLLER, 0), LEFT_ROLLER, 0)
    /\ cmds' = cmds \o << <<elapsed, RIGHT_ROLLER, 0>>, <<elapsed, LEFT_ROLLER, 0>> >>
    /\ pc' = "debugPress"
    /\ UNCHANGED <<loopVars, driveVars, armVars, held, prevHeld, runs, trayHist, lightVars,
                   i, rampDuration, elapsed, order>>

\* lines 110-113: the last commands, and the return to line 298
DropFinish ==
    /\ pc = "drop_end"
    /\ motor' = SetMotorPower(MotorSet(MotorSet(motor, RIGHT_ROLLER, 0), LEFT_ROLLER, 0), 0, 0)
    /\ cmds' = cmds \o << <<elapsed, RIGHT_ROLLER, 0>>, <<elapsed, LEFT_ROLLER, 0>> >>
                    \o SetMotorPowerLog(elapsed, 0, 0)
    /\ pc' = "debugPress"
    /\ UNCHANGED <<loopVars, driveVars, armVars, held, prevHeld, runs, trayHist, lightVars,
                   i, rampDuration, elapsed, order>>

(* --------------------------- attemptLight ------------------------------ *)

\* lines 121-125
LightReset ==
    /\ pc = "light_reset"
    /\ pinWrites' = <<LOW, HIGH>>
    /\ lightPin' = HIGH
    /\ lightI' = 0
    /\ pc' = "light_pulse"
    /\ UNCHANGED <<motor, loopVars, driveVars, armVars, held, prevHeld, dropVars, runs, trayHist, order>>

\* mutant: the loop runs once more (i <= 48)
LightPulseOneMore ==
    /\ pc = "light_pulse"
    /\ IF lightI <= 48
       THEN /\ pinWrites' = pinWrites \o <<HIGH, LOW>>
            /\ lightPin' = LOW
            /\ lightI' = lightI + 1
            /\ pc' = "light_pulse"
       ELSE /\ pc' = "light_end"
            /\ UNCHANGED lightVars
    /\ UNCHANGED <<motor, loopVars, driveVars, armVars, held, prevHeld, dropVars, runs, trayHist, order>>

\* lines 128-134: one iteration of the loop, or its exit
LightPulse ==
    /\ pc = "light_pulse"
    /\ IF lightI < 48
       THEN /\ pinWrites' = pinWrites \o <<HIGH, LOW>>
            /\ lightPin' = LOW
            /\ lightI' = lightI + 1
            /\ pc' = "light_pulse"
       ELSE /\ pc' = "light_end"
            /\ UNCHANGED lightVars
    /\ UNCHANGED <<motor, loopVars, driveVars, armVars, held, prevHeld, dropVars, runs, trayHist, order>>

\* line 135, and the return to line 312
LightEnd ==
    /\ pc = "light_end"
    /\ pinWrites' = Append(pinWrites, HIGH)
    /\ lightPin' = HIGH
    /\ pc' = "delay"
    /\ UNCHANGED <<motor, loopVars, driveVars, armVars, held, prevHeld, dropVars, runs,
                   trayHist, lightI, order>>

(* --------------------------- specifications ---------------------------- *)

CycleNext(E) ==
    \/ Drive(E)
    \/ Rollers(E)
    \/ Tray(E)
    \/ Nudge(E)
    \/ Arm(E)
    \/ Reset(E)
    \/ Backup(E)
    \/ DropoffCheck(E)
    \/ DebugPress(E)
    \/ DebugRelease(E)
    \/ EndDelay

DropNext ==
    \/ DropRamp
    \/ DropTrayStop
    \/ DropBumpForward
    \/ DropBumpBack
    \/ DropBumpStop
    \/ DropRollOut
    \/ DropFinish

LightNext ==
    \/ LightReset
    \/ LightPulse
    \/ LightEnd

\* the targets idealLiftPos takes: up from 0 in steps of 30, down from 4000 in steps of 30
ArmTargets ==
    {x \in ARM_LOWER_BOUND..ARM_UPPER_BOUND :
        \/ (x - ARM_LOWER_BOUND) % IDEAL_ARM_INCREMENT = 0
        \/ (ARM_UPPER_BOUND - x) % IDEAL_ARM_INCREMENT = 0}

\* the arm: its three buttons vary, the potentiometer reads one of a few angles
\* (every last digit, both ends of the range, angles around the targets)
AngleSamples == {0, 1, 9, 10, 11, 2000, 3995, 4095}
EnvArm == [buttons |-> {"7U", "7D", "7L"}, axes |-> {0}, angles |-> AngleSamples]
SpecArm == Init /\ [][CycleNext(EnvArm)]_vars

\* the arm correction on every target and every potentiometer reading: the cycle
\* up to the arm block, started where an idle cycle that read the arm on target
\* leaves the program (all motors at 0, currentPos = idealLiftPos)
EnvArmPower == [buttons |-> {"7U", "7D"}, axes |-> {0}, angles |-> 0..ANGLE_MAX]
InitArmPower == \E x \in ArmTargets : CycleStart(AllStopped, NoButton, x)
ArmPrefixNext ==
    \/ Drive(EnvArmPower)
    \/ Rollers(EnvArmPower)
    \/ Tray(EnvArmPower)
    \/ Nudge(EnvArmPower)
    \/ Arm(EnvArmPower)
SpecArmPower == InitArmPower /\ [][ArmPrefixNext]_vars

\* the drive mapper on every pair of axis readings: one cycle, started at the
\* program's first cycle or where two idle cycles with the backup override (8 DOWN)
\* held leave it (drive motors at -70/70, rollers at 80/-80)
EnvDrive == [buttons |-> {}, axes |-> (-JOY_MAX)..JOY_MAX, angles |-> {0}]
InitDrive ==
    \/ CycleStart(AllStopped, NoButton, 0)
    \/ CycleStart(BackupMotors(AllStopped), [NoButton EXCEPT !["8D"] = TRUE], 0)
DriveCycleNext ==
    \/ Drive(EnvDrive)
    \/ Rollers(EnvDrive)
    \/ Tray(EnvDrive)
    \/ Nudge(EnvDrive)
    \/ Arm(EnvDrive)
    \/ Reset(EnvDrive)
    \/ Backup(EnvDrive)
    \/ DropoffCheck(EnvDrive)
    \/ DebugPress(EnvDrive)
    \/ DebugRelease(EnvDrive)
SpecDrive == InitDrive /\ [][DriveCycleNext]_vars

\* the tray: its two buttons vary
EnvTray == [buttons |-> {"5U", "5D"}, axes |-> {0}, angles |-> {0}]
SpecTray == Init /\ [][CycleNext(EnvTray)]_vars

\* the dropoff macro, triggered with the actuators in several states
EnvDropoff == [buttons |-> {"8R", "8D", "6U", "6D", "5D"}, axes |-> {0, 100, -127},
               angles |-> {0, 2000}]
SpecDropoff == Init /\ [][CycleNext(EnvDropoff) \/ DropNext]_vars

\* the two macros and the backup override, with the tray counter, the light-button
\* flag and the arm power in several states when they start
EnvMacros == [buttons |-> {"8R", "8U", "8D", "5U"}, axes |-> {0}, angles |-> {0, 2000}]
SpecMacros == Init /\ [][CycleNext(EnvMacros) \/ DropNext \/ LightNext]_vars

\* the program under its scheduler: operatorControl is a task that is always given
\* the processor again and every delay() ends, so the step the program is at is
\* eventually taken (weak fairness of the program's next step); both macro buttons
\* vary
EnvLive == [buttons |-> {"8R", "8U"}, axes |-> {0}, angles |-> {0}]
LiveNext == CycleNext(EnvLive) \/ DropNext \/ LightNext
SpecLive == Init /\ [][LiveNext]_vars /\ WF_vars(LiveNext)

(* ------------------------------- claims -------------------------------- *)

Min(a, b) == IF a <= b THEN a ELSE b
Max(a, b) == IF a >= b THEN a ELSE b
Abs(x) == IF x >= 0 THEN x ELSE -x

\* q is n/d truncated toward zero (d > 0)
IsTruncQuot(q, n, d) ==
    /\ n >= 0 => (q >= 0 /\ q * d <= n /\ n < (q + 1) * d)
    /\ n < 0 => (q <= 0 /\ q * d >= n /\ n > (q - 1) * d)

\* idealLiftPos takes no value outside ArmTargets (SpecArm reaches each of them)
ArmTargetsInv == idealLiftPos \in ArmTargets

\* C1: the arm target stays within [ARM_LOWER_BOUND, ARM_UPPER_BOUND] in every
\* reachable state, the states inside a cycle included, whatever combination of
\* 7 UP, 7 DOWN and 7 LEFT is held in each cycle
C1_TargetInBounds ==
    /\ ARM_LOWER_BOUND <= idealLiftPos
    /\ idealLiftPos <= ARM_UPPER_BOUND

\* C1 witness: inside a cycle, between the nudge and the reset, after an increase
\* that was cut at the upper bound (the target before it was 3990 or 4000)
C1_Witness ==
    /\ pc = "reset"
    /\ held["7U"]
    /\ idealLiftPos = ARM_UPPER_BOUND

C2_ArmPowerProportional ==
    pc = "reset" =>
        /\ motor[RIGHT_ARM] = motor[LEFT_ARM]
        /\ IsTruncQuot(motor[RIGHT_ARM], currentPos - idealLiftPos, 10)

\* C2 witness: after a nudge up to 30, a reading of 7: 0.1 x (7 - 30) = -2.3, written as -2
C2_Witness ==
    /\ pc = "reset"
    /\ held["7U"]
    /\ idealLiftPos = 30
    /\ currentPos = 7
    /\ motor[RIGHT_ARM] = -2
    /\ motor[LEFT_ARM] = -2

\* the drive mapper's outputs for the raw readings f and t, as the claim states them:
\* turn/1.4 truncated toward zero, both readings zeroed below 15 in absolute value
ClaimedTurn(t) == CHOOSE q \in (-JOY_MAX)..JOY_MAX : IsTruncQuot(q, t * 10, 14)
ClaimedDeadband(x) == IF Abs(x) < 15 THEN 0 ELSE x

\* C8: after the drive mapper step both left drive motors are commanded forward' + turn'
\* and both right drive motors -(forward' - turn'), for all raw readings in -127..127
C8_DriveOutputs ==
    pc = "rollers" =>
        LET f1 == ClaimedDeadband(rawForward)
            t1 == ClaimedDeadband(ClaimedTurn(rawTurn))
        IN  /\ motor[LEFT_MOTOR_FRONT] = f1 + t1
            /\ motor[LEFT_MOTOR_BACK] = f1 + t1
            /\ motor[RIGHT_MOTOR_FRONT] = -(f1 - t1)
            /\ motor[RIGHT_MOTOR_BACK] = -(f1 - t1)

\* C8 witness: forward 100, turn 50: turn' = 35 (50/1.4 = 35.7), left 135, right -(65)
C8_Witness ==
    /\ pc = "rollers"
    /\ rawForward = 100
    /\ rawTurn = 50
    /\ motor[LEFT_MOTOR_FRONT] = 135
    /\ motor[LEFT_MOTOR_BACK] = 135
    /\ motor[RIGHT_MOTOR_FRONT] = -65
    /\ motor[RIGHT_MOTOR_BACK] = -65

\* C9: raw readings with |forward| < 15 and |turn| < 15 make the drive mapper step
\* command power 0 to all four drive motors
C9_DeadbandZero ==
    (pc = "rollers" /\ Abs(rawForward) < 15 /\ Abs(rawTurn) < 15) =>
        \A p \in DrivePorts : motor[p] = 0

\* C9 witness: readings 14 and -14 stop the drive motors that the backup override
\* of the previous cycle had left running at -70/70
C9_Witness ==
    /\ pc = "rollers"
    /\ held["8D"]
    /\ rawForward = 14
    /\ rawTurn = -14
    /\ \A p \in DrivePorts : motor[p] = 0

\* C6: the tray cycle counter is 0 after the tray block of every cycle in which
\* 5 UP is not held, so the first cycle of each new press of 5 UP commands 127
C6_CounterResetOnRelease ==
    /\ (pc = "nudge" /\ ~held["5U"]) => trayIsCurrentlyFullPower = 0
    /\ (pc = "nudge" /\ held["5U"] /\ ~prevHeld["5U"]) => motor[TRAY] = 127

\* the counter values before the tray steps trayHist remembers, and their powers
HistCounters == [k \in 1..Len(trayHist) |-> trayHist[k][1]]
HistPowers == [k \in 1..Len(trayHist) |-> trayHist[k][2]]

\* C7: four consecutive cycles with 5 UP held that start with the counter at 0
\* command 127, 40, 40, 40 and return the counter to 0; and the counter is in 0..3
\* at the end of every cycle (in every state between two blocks)
C7_TrayCycleWraps ==
    /\ trayIsCurrentlyFullPower \in 0..3
    /\ \A k \in 1..Len(trayHist) :
         (k + 3 <= Len(trayHist) /\ trayHist[k][1] = 0) =>
             /\ SubSeq(HistPowers, k, k + 3) = <<127, 40, 40, 40>>
             /\ IF k + 3 = Len(trayHist)
                THEN trayIsCurrentlyFullPower = 0
                ELSE trayHist[k + 4][1] = 0

\* C7 witness: the end of a fourth consecutive raise cycle that began with the counter at 0
C7_Witness ==
    /\ pc = "delay"
    /\ held["5U"]
    /\ Len(trayHist) >= 4
    /\ trayHist[Len(trayHist) - 3][1] = 0
    /\ motor[TRAY] = 40
    /\ trayIsCurrentlyFullPower = 0

DropPcs == {"drop_ramp", "drop_trayStop", "drop_fwd", "drop_back", "drop_stop",
            "drop_out", "drop_end"}

\* a run of dropOffCubes has returned (and none is under way)
RunDone == pc \notin DropPcs /\ cmds # <<>>

\* dropOffCubes has just been called / has just returned to the loop
MacroCalled == pc = "drop_ramp" /\ elapsed = 0
MacroReturned == pc = "debugPress" /\ held["8R"]

\* the drivetrain and roller commands of the run, in the order they were issued
DriveRollerCmds == SelectSeq(cmds, LAMBDA c : c[2] \in DrivePorts \cup RollerPorts)

IsPrefix(s, t) == Len(s) <= Len(t) /\ s = SubSeq(t, 1, Len(s))

\* the drivetrain commanded (left, right) at time t: the right motors turn the other way
DriveCmd(t, left, right) ==
    << <<t, LEFT_MOTOR_FRONT, left>>, <<t, LEFT_MOTOR_BACK, left>>,
       <<t, RIGHT_MOTOR_FRONT, -right>>, <<t, RIGHT_MOTOR_BACK, -right>> >>

RollerCmd(t, right, left) == << <<t, RIGHT_ROLLER, right>>, <<t, LEFT_ROLLER, left>> >>

\* the schedule of C3 for a ramp of r ms, in ms after the trigger
DropSchedule(r) ==
    DriveCmd(r + 2000, 60, 60)
    \o DriveCmd(r + 2000 + 200, -60, -60)
    \o DriveCmd(r + 2000 + 400, 0, 0)
    \o RollerCmd(r + 2000 + 400 + 2000, 80, -80)
    \o DriveCmd(r + 2000 + 400 + 2000, -BACKUP_SPEED, -BACKUP_SPEED)
    \o RollerCmd(r + 2000 + 400 + 2000 + 700, 0, 0)
    \o DriveCmd(r + 2000 + 400 + 2000 + 700, 0, 0)

\* C3: in a run of dropOffCubes the drivetrain and roller commands are exactly:
\* forward (60,60) at ramp+2000 ms after the trigger, reverse (-60,-60) 200 ms later,
\* stop 200 ms later, rollers out (80,-80) with the drivetrain at -BACKUP_SPEED at
\* ramp+2000+400+2000 ms, rollers and drivetrain stopped 700 ms later; in this order,
\* with no other drivetrain or roller command in between
C3_DropoffSchedule ==
    /\ pc \in DropPcs => IsPrefix(DriveRollerCmds, DropSchedule(rampDuration))
    /\ RunDone => DriveRollerCmds = DropSchedule(rampDuration)

\* C3 witness: a completed run: 49 ramp steps of 20 ms, the last command 6080 ms
\* after the trigger
C3_Witness ==
    /\ MacroReturned
    /\ rampDuration = 980
    /\ elapsed = 6080
    /\ Len(DriveRollerCmds) = 24

\* C4 as stated: when a run of dropOffCubes returns, the last power commanded to
\* the four drive motors, both rollers, the tray and both arm motors is zero
C4_AllActuatorsZero ==
    MacroReturned =>
        \A p \in DrivePorts \cup RollerPorts \cup {TRAY} \cup ArmPorts : motor[p] = 0

\* C4 amended: when a run of dropOffCubes returns, the last power commanded to the
\* four drive motors, both rollers and the tray is zero, whatever they were commanded
\* when the macro was triggered; the arm motors keep the proportional power that the
\* triggering cycle commanded before the macro
C4_MacroActuatorsZero ==
    MacroReturned =>
        /\ \A p \in DrivePorts \cup RollerPorts \cup {TRAY} : motor[p] = 0
        /\ \A p \in ArmPorts : motor[p] = proportional

\* C4 witness: a run triggered with the drive motors and the rollers running in the
\* backup override, the tray lowering and the arm 2000 off target has returned
C4_Witness ==
    /\ MacroReturned
    /\ held["8D"]
    /\ held["5D"]
    /\ rawForward = 100
    /\ motor[RIGHT_ARM] = 200
    /\ motor[LEFT_ARM] = 200

\* C5 as stated: dropOffCubes is called only on a transition of 8 RIGHT (released at
\* the previous cycle's check, pressed at this one), so one press starts one run
C5_EdgeTriggered ==
    /\ MacroCalled => (held["8R"] /\ ~prevHeld["8R"])
    /\ runs <= 1

\* C5 amended: the macro is level-triggered: in every cycle dropOffCubes is called
\* exactly when 8 RIGHT reads pressed at that cycle's check, whatever it read at the
\* previous cycle's check; a button held across the macro starts a new run in the
\* next cycle
C5_LevelTriggered ==
    [][pc = "dropoff" => (pc' = "drop_ramp" <=> held'["8R"])]_vars

\* C5 witness: a second run called with 8 RIGHT pressed at two checks in a row
C5_Witness ==
    /\ MacroCalled
    /\ held["8R"]
    /\ prevHeld["8R"]
    /\ runs = 2


LightPcs == {"light_reset", "light_pulse", "light_end"}

\* a run of attemptLight has returned (pinWrites keeps its writes until the next run)
LightReturned == pinWrites # <<>> /\ pc \notin LightPcs

\* the high-to-low transitions in the writes s
Falls(s) == Cardinality({k \in 1..(Len(s) - 1) : s[k] = HIGH /\ s[k + 1] = LOW})

\* the low-to-high transitions in the writes s
Rises(s) == Cardinality({k \in 1..(Len(s) - 1) : s[k] = LOW /\ s[k + 1] = HIGH})

\* C11: one run of attemptLight drives the light pin low (the reset), then through
\* exactly 48 high/low pulse pairs, finally high: the line is high at the return and
\* exactly 48 high-to-low transitions follow the reset pulse (the write of line 125
\* after the reset repeats the level of the first pulse's high, so the line rises 49
\* times: once out of the reset, once into each later pulse, once at the end)
C11_LightWaveform ==
    /\ pc \in {"light_pulse", "light_end"} =>
        /\ pinWrites[1] = LOW
        /\ Falls(Tail(pinWrites)) = lightI
        /\ lightI <= 48
    /\ LightReturned =>
        /\ pinWrites[1] = LOW
        /\ Falls(Tail(pinWrites)) = 48
        /\ Rises(pinWrites) = 49
        /\ pinWrites[Len(pinWrites)] = HIGH
        /\ lightPin = HIGH

\* C11 witness: attemptLight has returned to the cycle's delay, 48 pulses written
C11_Witness ==
    /\ pc = "delay"
    /\ lightI = 48
    /\ lightPin = HIGH
    /\ Len(pinWrites) = 99

\* the actuators dropOffCubes commands
MacroPorts == DrivePorts \cup RollerPorts \cup {TRAY}

\* C12: while dropOffCubes runs (every step from its call to its return) no joystick
\* input is sampled, the only actuators commanded are the tray, the drive motors and
\* the rollers (the arm motors, the motor of port 1 and the light pin keep what they
\* had), and idealLiftPos, the tray cycle counter and the light-button flag keep
\* their values
C12_DropoffFrame ==
    [][(pc \in DropPcs) =>
        /\ held' = held
        /\ rawForward' = rawForward
        /\ rawTurn' = rawTurn
        /\ currentPos' = currentPos
        /\ (\A p \in Ports \ MacroPorts : motor'[p] = motor[p])
        /\ (\A k \in 1..Len(cmds') : cmds'[k][2] \in MacroPorts)
        /\ lightPin' = lightPin
        /\ pinWrites' = pinWrites
        /\ idealLiftPos' = idealLiftPos
        /\ trayIsCurrentlyFullPower' = trayIsCurrentlyFullPower
        /\ debugButtonPressed' = debugButtonPressed]_vars

\* C12 witness: the macro is at its last step with the light-button flag set, the
\* tray counter at 2 and the arm motors at the power the triggering cycle wrote
C12_Witness ==
    /\ pc = "drop_end"
    /\ debugButtonPressed
    /\ trayIsCurrentlyFullPower = 2
    /\ motor[RIGHT_ARM] = 200
    /\ motor[LEFT_ARM] = 200
    /\ motor[DEBUG_MOTOR] = 127

\* the place of an actuator group in the order drive, rollers, tray, arm, macros
\* (the motor of port 1 is commanded with the light emitter)
Rank(tag) ==
    CASE tag = "drive" -> 1
      [] tag = "rollers" -> 2
      [] tag = "tray" -> 3
      [] tag = "arm" -> 4
      [] OTHER -> 5

\* C13 as stated: within one cycle the actuator commands are issued in the order
\* drive, rollers, tray, arm, macros: no roller command precedes a drive command of
\* the cycle, no tray command a roller command, no arm command a tray command, and
\* no macro starts before an arm command
C13_FixedOrder ==
    \A j, k \in 1..Len(order) : j < k => Rank(order[j]) <= Rank(order[k])

\* the commands every cycle issues, and those that may follow them
BlockOrder == <<"drive", "rollers", "tray", "arm">>
OverrideOrders == {<<>>, <<"rollers", "drive">>}
DropoffOrders == {<<>>, <<"dropoff">>}
LightOrders == {<<>>, <<"debug">>, <<"debug", "light">>, <<"debug", "debug", "light">>}
CycleOrders ==
    {BlockOrder \o o \o d \o l : o \in OverrideOrders, d \in DropoffOrders, l \in LightOrders}

\* C13 amended: within one cycle the commands are issued in the fixed order drive,
\* rollers, tray, arm, then (only with 8 DOWN held) the backup override's roller and
\* drive commands, then the macros: dropoff, then the port-1 motor and the light
\* emitter; every cycle issues the first four
C13_BlockOrder ==
    /\ \E full \in CycleOrders : IsPrefix(order, full)
    /\ pc = "delay" => order \in CycleOrders
    /\ pc \in {"dropoff", "debugPress", "debugRelease", "delay"} \cup DropPcs \cup LightPcs =>
         (held["8D"] <=> IsPrefix(BlockOrder \o <<"rollers", "drive">>, order))

\* C13 witness: a cycle that issued every command: the four blocks, the override,
\* the dropoff macro, the port-1 motor on and off, the light emitter
C13_Witness ==
    /\ pc = "delay"
    /\ order = BlockOrder \o <<"rollers", "drive", "dropoff", "debug", "debug", "light">>

\* C14: every call of setMotorPower from the drive mapper passes left and right
\* within -127..127, for all joystick readings (the left motors are set to left, the
\* right motors to -right)
C14_PowersInRange ==
    pc = "rollers" =>
        /\ motor[LEFT_MOTOR_FRONT] \in (-127)..127
        /\ (-motor[RIGHT_MOTOR_FRONT]) \in (-127)..127

\* the places of operatorControl's loop
LoopPcs == {"drive", "rollers", "tray", "nudge", "arm", "reset", "backup", "dropoff",
            "debugPress", "debugRelease", "delay"}

\* C15: under fair scheduling every run of dropOffCubes that has started returns to
\* the loop, every run of attemptLight that has started returns to the loop, after
\* either the loop samples the joystick axes again (and does so again and again),
\* and operatorControl never leaves its loop
C15_MacrosReturn ==
    /\ (pc \in DropPcs) ~> (pc = "debugPress")
    /\ (pc \in LightPcs) ~> (pc = "delay")
    /\ (pc \in DropPcs \cup LightPcs) ~> (pc = "rollers")
    /\ []<>(pc = "rollers")
    /\ [](pc \in LoopPcs \cup DropPcs \cup LightPcs)

\* C15 witness: the loop has sampled the axes again after a run of each macro
C15_Witness ==
    /\ pc = "rollers"
    /\ RunDone
    /\ LightReturned
    /\ elapsed = 980 + 2000 + 200 + 200 + 2000 + 700

\* how many times tag occurs in the sequence s
Count(s, tag) == Cardinality({k \in 1..Len(s) : s[k] = tag})

\* attemptLight was called in this cycle / 8 UP was read pressed at line 298 of this
\* cycle after a read that found it released (the port-1 motor is commanded once on
\* that press and once more with every call of attemptLight)
LightRan == Count(order, "light") > 0
PressSeen == Count(order, "debug") > Count(order, "light")

\* C16 as stated: attemptLight runs in the cycle in which 8 UP is first read pressed
\* after it was read released, and in no other cycle
C16_PressTriggered ==
    pc = "delay" => (LightRan <=> PressSeen)

\* C16 amended: attemptLight is called on the release: exactly in a cycle in which
\* 8 UP reads released at line 304 while debugButtonPressed is set, that is after a
\* read at line 298 of this or an earlier cycle found it pressed; the call clears
\* the flag, so each observed press gives one call, and no other place calls it
C16_ReleaseTriggered ==
    /\ [][(pc = "debugRelease") =>
            /\ (pc' = "light_reset") <=> (debugButtonPressed /\ ~held'["8U"])
            /\ (pc' = "light_reset") => ~debugButtonPressed']_vars
    /\ [][(pc' = "light_reset") => (pc = "debugRelease")]_vars
    /\ [][(pc = "debugPress" /\ ~debugButtonPressed) => (debugButtonPressed' = held'["8U"])]_vars
    /\ [](pc = "delay" => (LightRan <=> (Count(order, "light") = 1 /\ ~debugButtonPressed)))

\* C16 witness: attemptLight is called in a cycle that read 8 UP only as released,
\* the cycle before having ended with the button read pressed
C16_Witness ==
    /\ pc = "light_reset"
    /\ prevHeld["8U"]
    /\ ~held["8U"]
    /\ ~PressSeen
    /\ order = BlockOrder \o <<"debug", "light">>

\* the tray commands of the run of dropOffCubes, in the order they were issued
TrayCmds == SelectSeq(cmds, LAMBDA c : c[2] = TRAY)

\* C17: the tray commands of a run of dropOffCubes form a ramp: the first is 127 (at
\* the call), each later one is strictly smaller than the one before and comes 20 ms
\* after it, none of the ramp is below 30, and the ramp is followed, 20 ms after its
\* last command, by the tray command 0, which is the last tray command of the run
C17_TrayRamp ==
    LET t == TrayCmds
        n == Len(t)
    IN  /\ (pc \in DropPcs \ {"drop_ramp", "drop_trayStop"} \/ RunDone) =>
             (n >= 2 /\ t[n][3] = 0)
        /\ pc \in {"drop_ramp", "drop_trayStop"} => \A k \in 1..n : t[k][3] # 0
        /\ n >= 1 => t[1] = <<0, TRAY, 127>>
        /\ \A k \in 1..(n - 1) :
             /\ t[k + 1][3] < t[k][3]
             /\ t[k + 1][1] = t[k][1] + 20
             /\ t[k][3] >= 30
        /\ \A k \in 1..n : t[k][3] = 0 \/ t[k][3] >= 30

\* C17 witness: a run has returned; its ramp ended with 31 at 960 ms, the tray was
\* stopped at 980 ms
C17_Witness ==
    /\ RunDone
    /\ MacroReturned
    /\ Len(TrayCmds) = 50
    /\ TrayCmds[2] = <<20, TRAY, 125>>
    /\ TrayCmds[49] = <<960, TRAY, 31>>
    /\ TrayCmds[50] = <<980, TRAY, 0>>

\* C18 as stated: the arm output has no deadband: in every cycle in which the
\* measured angle differs from the target the power written to the arm motors is
\* nonzero, positive when the measured angle is greater, negative when it is less
C18_NoDeadband ==
    pc = "reset" =>
        \A p \in ArmPorts :
            /\ currentPos > idealLiftPos => motor[p] > 0
            /\ currentPos < idealLiftPos => motor[p] < 0

\* C18 amended: the power written to the arm motors is positive when the measured
\* angle is 10 or more above the target, negative when it is 10 or more below, and 0
\* when they differ by less than 10 (the conversion to int truncates 0.1 x the
\* error toward zero)
C18_TruncationDeadband ==
    pc = "reset" =>
        \A p \in ArmPorts :
            /\ currentPos - idealLiftPos >= 10 => motor[p] > 0
            /\ currentPos - idealLiftPos <= -10 => motor[p] < 0
            /\ Abs(currentPos - idealLiftPos) < 10 => motor[p] = 0

\* C18 witness: the reading 9 above the target 30: both arm motors are written 0
C18_Witness ==
    /\ pc = "reset"
    /\ idealLiftPos = 30
    /\ currentPos = 39
    /\ motor[RIGHT_ARM] = 0
    /\ motor[LEFT_ARM] = 0

\* the places of a cycle after its reset block (no macro called)
AfterResetPcs == {"backup", "dropoff", "debugPress", "debugRelease", "delay"}

\* C19 as stated: at the end of every cycle in which 7 LEFT is held the target is
\* ARM_LOWER_BOUND, and the arm power commanded in that cycle is computed against
\* ARM_LOWER_BOUND (the reset applied before the cycle's correction)
C19_ResetBeforeCorrection ==
    (pc \in AfterResetPcs /\ held["7L"]) =>
        /\ idealLiftPos = ARM_LOWER_BOUND
        /\ \A p \in ArmPorts : IsTruncQuot(motor[p], currentPos - ARM_LOWER_BOUND, 10)

\* C19 amended: at the end of every cycle in which 7 LEFT is held the target is
\* ARM_LOWER_BOUND, whatever the other arm buttons; the reset comes after the cycle's
\* correction and changes only the target: the arm power of that cycle stays the one
\* computed against the target the nudge left, and the correction of the next cycle
\* is the first computed from ARM_LOWER_BOUND (nudged by that cycle's buttons)
C19_ResetAfterCorrection ==
    /\ []((pc \in AfterResetPcs /\ held["7L"]) => idealLiftPos = ARM_LOWER_BOUND)
    /\ [][(pc = "reset") =>
            /\ motor' = motor
            /\ \A p \in ArmPorts : IsTruncQuot(motor[p], currentPos - idealLiftPos, 10)
            /\ held'["7L"] => idealLiftPos' = ARM_LOWER_BOUND
            /\ ~held'["7L"] => idealLiftPos' = idealLiftPos]_vars
    /\ []((pc = "reset" /\ prevHeld["7L"]) =>
            /\ idealLiftPos \in {ARM_LOWER_BOUND, ARM_LOWER_BOUND + IDEAL_ARM_INCREMENT}
            /\ \A p \in ArmPorts : IsTruncQuot(motor[p], currentPos - idealLiftPos, 10))

\* C19 witness: 7 UP and 7 LEFT held in a cycle that read the arm at 2000 with the
\* target at 4000: the power written is -200 (against 4000, not 200 against 0) and
\* the target is 0 after the reset
C19_Witness ==
    /\ pc = "backup"
    /\ held["7L"]
    /\ held["7U"]
    /\ idealLiftPos = ARM_LOWER_BOUND
    /\ currentPos = 2000
    /\ motor[RIGHT_ARM] = -200
    /\ motor[LEFT_ARM] = -200

\* C20: the two rollers are always commanded as a mirrored pair: after every pair of
\* roller commands (the roller block, the backup override, the dropoff macro) the
\* right roller's power is minus the left roller's; and the roller block gives the
\* intake priority: with 6 UP held, 6 DOWN held or not, it commands the intake pair
\* (-127 right, 127 left), with 6 DOWN alone the outtake pair, with neither 0
C20_RollersMirrored ==
    /\ motor[RIGHT_ROLLER] = -motor[LEFT_ROLLER]
    /\ motor[RIGHT_ROLLER] \in {-127, 60, 0, 80}
    /\ pc = "tray" =>
        /\ held["6U"] => (motor[RIGHT_ROLLER] = -127 /\ motor[LEFT_ROLLER] = 127)
        /\ (~held["6U"] /\ held["6D"]) => (motor[RIGHT_ROLLER] = 60 /\ motor[LEFT_ROLLER] = -60)
        /\ (~held["6U"] /\ ~held["6D"]) => (motor[RIGHT_ROLLER] = 0 /\ motor[LEFT_ROLLER] = 0)
    /\ (pc = "dropoff" /\ held["8D"]) => motor[RIGHT_ROLLER] = 80
    /\ pc = "drop_end" => motor[RIGHT_ROLLER] = 80
    /\ MacroReturned => motor[RIGHT_ROLLER] = 0

\* C20 witness: 6 UP and 6 DOWN both held: the roller block has commanded the intake
\* pair over the override's pair of the cycle before
C20_Witness ==
    /\ pc = "tray"
    /\ held["6U"]
    /\ held["6D"]
    /\ prevHeld["8D"]
    /\ motor[RIGHT_ROLLER] = -127
    /\ motor[LEFT_ROLLER] = 127

====
